---- MODULE Spec2Model ----
(***************************************************************************)
(* Connection session and process supervisor of the live-room danmaku      *)
(* client (src/main.rs): main's reconnect loop, start_listening's          *)
(* handshake / heartbeat / drain loop, and process_depacked_message.       *)
(*                                                                         *)
(* Time is the wall clock read by Utc::now(), in milliseconds.  The clock  *)
(* advances while the thread sleeps and while a heartbeat send is in       *)
(* progress.                                                               *)
(***************************************************************************)
EXTENDS Integers, Sequences, FiniteSets, TLC

VARIABLES
    pc,              \* position of the single thread in main / start_listening
    now,             \* wall clock (ms)
    host_url,        \* the URL handed to every session: "valid" or "invalid"
    client,          \* the session's socket: "none", "blocking", "nonblocking"
    last_heartbeat,  \* start_listening's local `last_heartbeat`
    result,          \* what start_listening returned: "none", "Ok", "Err"
    batch,           \* raw messages of the frame being processed, not yet visited
    delivered,       \* LiveMessages handed to process_live_message this session
    received,        \* raw messages received in LiveMessages frames this session
    recv_outcome,    \* outcome of the recv_message call made by the most recent step
    last_log,        \* warn/info lines written by the most recent step
    started_at,      \* clock value stored by `let mut last_heartbeat = Utc::now()`
    heartbeats,      \* completion times of the session's successful heartbeat sends
    hb_failed,       \* the session's most recent heartbeat send failed
    cert_acked,      \* a CertificateResp frame was received in this session
    slept,           \* Duration passed to the most recent sleep() call
    connections,     \* sockets opened so far; the session's socket is number `connections`
    certificates     \* certificate frames sent on the session's socket

vars == <<pc, now, host_url, client, last_heartbeat, result, batch, delivered,
          received, recv_outcome, last_log, started_at, heartbeats, hb_failed,
          cert_acked, slept, connections, certificates>>

----------------------------------------------------------------------------
(* Bounds of the exploration *)
MaxClock == 46000
MaxReceived == 2
MaxBatch == 2

(* Program constants, in milliseconds *)
PollInterval == 200
HeartbeatInterval == 20000

\* a supervisor that waits longer after a faulted session
ReconnectDelayByResult == IF result = "Err" THEN 10000 ELSE 5000

ReconnectDelay == 5000

NoTime == -1

\* sleep() returns no earlier than the requested duration; the scheduler may
\* add any overshoot.  Sampled overshoots.
SleepOvershoot == {9800, 20000}

\* Time a heartbeat send_message call may take.
SendLatency == {0, 200}

----------------------------------------------------------------------------
(* Inbound data.  The codec and decoder modules (packet, depack, message)   *)
(* are modelled at their interface.                                         *)

KnownCmds == {"DANMU_MSG", "SEND_GIFT"}

RawMessages ==
    { [cmd |-> "DANMU_MSG", shape_ok |-> TRUE],
      [cmd |-> "SEND_GIFT", shape_ok |-> TRUE],
      [cmd |-> "DANMU_MSG", shape_ok |-> FALSE],
      [cmd |-> "FUTURE_CMD", shape_ok |-> TRUE] }

RECURSIVE SeqsUpTo(_, _)
SeqsUpTo(S, n) ==
    IF n = 0 THEN {<<>>}
    ELSE LET shorter == SeqsUpTo(S, n - 1)
         IN  shorter \cup { Append(s, x) : s \in {t \in shorter : Len(t) = n - 1}, x \in S }

OpHeartbeatResp == 3
OpMessage == 5
OpCertificateResp == 8
OpHeartbeat == 2

Payload(framed, intact, operation, entries) ==
    [framed |-> framed, intact |-> intact, operation |-> operation, entries |-> entries]

\* Payloads of the non-close messages the server may deliver.
Payloads ==
    { Payload(FALSE, TRUE, OpMessage, <<>>),
      Payload(TRUE, FALSE, OpMessage, <<>>),
      Payload(TRUE, TRUE, OpHeartbeat, <<>>),
      Payload(TRUE, TRUE, OpCertificateResp, <<>>),
      Payload(TRUE, TRUE, OpHeartbeatResp, <<>>) }
    \cup { Payload(TRUE, TRUE, OpMessage, es) : es \in SeqsUpTo(RawMessages, MaxBatch) }

\* packet::ws::deserialize_packet: Err for a buffer that is not one frame.
deserialize_packet(data) ==
    IF data.framed
    THEN [ok |-> TRUE, header |-> [operation |-> data.operation],
          body |-> [intact |-> data.intact, entries |-> data.entries]]
    ELSE [ok |-> FALSE]

\* depack::depack_packets: Err for a corrupt body or an unsupported operation.
depack_packets(header, body) ==
    IF ~body.intact THEN [ok |-> FALSE]
    ELSE IF header.operation = OpCertificateResp
         THEN [ok |-> TRUE, kind |-> "CertificateResp", messages |-> <<>>]
    ELSE IF header.operation = OpHeartbeatResp
         THEN [ok |-> TRUE, kind |-> "HeartbeatResp", messages |-> <<>>]
    ELSE IF header.operation = OpMessage
         THEN [ok |-> TRUE, kind |-> "LiveMessages", messages |-> body.entries]
    ELSE [ok |-> FALSE]

\* LiveMessage::try_from(raw_message)
try_from(raw) ==
    IF raw.cmd \notin KnownCmds THEN [ok |-> FALSE, err |-> "NotSupported"]
    ELSE IF ~raw.shape_ok THEN [ok |-> FALSE, err |-> "DeserializeError"]
    ELSE [ok |-> TRUE,
          msg |-> IF raw.cmd = "DANMU_MSG" THEN "Danmaku" ELSE "SendGift"]

\* The LiveMessages a sequence of raw messages decodes to, in order.
RECURSIVE DecodeAll(_)
DecodeAll(raws) ==
    IF raws = <<>> THEN <<>>
    ELSE LET r == try_from(Head(raws))
         IN  (IF r.ok THEN <<r.msg>> ELSE <<>>) \o DecodeAll(Tail(raws))

----------------------------------------------------------------------------
(* Helpers *)

\* a check that waits 2 s instead of 20 s
HeartbeatDueHasty(last, t) == t > last + 2000

\* a check that lets one more poll interval pass
HeartbeatDueLate(last, t) == t > last + HeartbeatInterval + PollInterval

\* last_heartbeat.checked_add_signed(20 s).is_some_and(|time| Utc::now() > time)
\* (the None branch needs a timestamp within 20 s of chrono's maximum date)
HeartbeatDue(last, t) == t > last + HeartbeatInterval

\* std::thread::sleep(duration): the clock after the call
SleepUntil(duration) == { now + duration + o : o \in SleepOvershoot }

\* a step that makes no recv_message call and touches no session history
SessionHistoryUnchanged ==
    /\ recv_outcome' = "none"
    /\ UNCHANGED <<delivered, received, started_at, heartbeats, hb_failed,
                   cert_acked>>

\* `return` / `?` in start_listening: the locals are dropped
Return(res) ==
    /\ pc' = "returned"
    /\ result' = res
    /\ client' = "none"
    /\ last_heartbeat' = NoTime
    /\ batch' = <<>>

----------------------------------------------------------------------------
Init ==
    /\ pc = "start"
    /\ now = 0
    /\ host_url \in {"valid", "invalid"}
    /\ client = "none"
    /\ last_heartbeat = NoTime
    /\ result = "none"
    /\ batch = <<>>
    /\ delivered = <<>>
    /\ received = <<>>
    /\ recv_outcome = "none"
    /\ last_log = <<>>
    /\ started_at = NoTime
    /\ heartbeats = <<>>
    /\ hb_failed = FALSE
    /\ cert_acked = FALSE
    /\ slept = 0
    /\ connections = 0
    /\ certificates = 0

----------------------------------------------------------------------------
(* start_listening: connecting *)

\* ClientBuilder::new(host_url).unwrap().connect_secure(None).unwrap(), success
ConnectOk ==
    /\ connections' = connections + 1
    /\ certificates' = 0
    /\ pc = "start"
    /\ host_url = "valid"
    /\ pc' = "set_nonblocking"
    /\ client' = "blocking"
    /\ result' = "none"
    /\ delivered' = <<>>
    /\ received' = <<>>
    /\ recv_outcome' = "none"
    /\ started_at' = NoTime
    /\ heartbeats' = <<>>
    /\ hb_failed' = FALSE
    /\ cert_acked' = FALSE
    /\ last_log' = <<>>
    /\ UNCHANGED <<now, host_url, last_heartbeat, batch, slept>>

\* either unwrap() meets an Err: the URL does not parse, or the connection
\* cannot be established
ConnectPanic ==
    /\ UNCHANGED <<connections, certificates>>
    /\ pc = "start"
    /\ pc' = "panicked"
    /\ result' = "none"
    /\ last_log' = <<>>
    /\ UNCHANGED <<now, host_url, client, last_heartbeat, batch, slept>>
    /\ SessionHistoryUnchanged

\* a session that takes its timestamp from when the process started
SetNonblockingOkStaleStamp ==
    /\ UNCHANGED <<connections, certificates>>
    /\ pc = "set_nonblocking"
    /\ client' = "nonblocking"
    /\ last_heartbeat' = 0
    /\ started_at' = now
    /\ pc' = "certificate"
    /\ last_log' = <<"Successfully connected to server">>
    /\ recv_outcome' = "none"
    /\ UNCHANGED <<now, host_url, result, batch, slept, delivered, received,
                   heartbeats, hb_failed, cert_acked>>

\* client.set_nonblocking(true)? succeeds; let mut last_heartbeat = Utc::now()
SetNonblockingOk ==
    /\ UNCHANGED <<connections, certificates>>
    /\ pc = "set_nonblocking"
    /\ client' = "nonblocking"
    /\ last_heartbeat' = now
    /\ started_at' = now
    /\ pc' = "certificate"
    /\ last_log' = <<"Successfully connected to server">>
    /\ recv_outcome' = "none"
    /\ UNCHANGED <<now, host_url, result, batch, slept, delivered, received,
                   heartbeats, hb_failed, cert_acked>>

SetNonblockingErr ==
    /\ UNCHANGED <<connections, certificates>>
    /\ pc = "set_nonblocking"
    /\ Return("Err")
    /\ last_log' = <<>>
    /\ UNCHANGED <<now, host_url, slept>>
    /\ SessionHistoryUnchanged

\* client.send_message(&Message::binary(certificate_packet(..)?))? succeeds
CertificateSent ==
    /\ certificates' = certificates + 1
    /\ UNCHANGED connections
    /\ pc = "certificate"
    /\ pc' = "poll_sleep"
    /\ last_log' = <<>>
    /\ UNCHANGED <<now, host_url, client, last_heartbeat, result, batch, slept>>
    /\ SessionHistoryUnchanged

\* a certificate step whose error is dropped instead of returned
CertificateErrIgnored ==
    /\ UNCHANGED <<connections, certificates>>
    /\ pc = "certificate"
    /\ pc' = "poll_sleep"
    /\ last_log' = <<>>
    /\ UNCHANGED <<now, host_url, client, last_heartbeat, result, batch, slept>>
    /\ SessionHistoryUnchanged

\* certificate_packet(..) or send_message(..) returns Err
CertificateErr ==
    /\ UNCHANGED <<connections, certificates>>
    /\ pc = "certificate"
    /\ Return("Err")
    /\ last_log' = <<>>
    /\ UNCHANGED <<now, host_url, slept>>
    /\ SessionHistoryUnchanged

----------------------------------------------------------------------------
(* start_listening: 'main loop *)

\* a 'main loop whose turn goes from the sleep straight to the drain
PollSleepThenDrain ==
    /\ UNCHANGED <<connections, certificates>>
    /\ pc = "poll_sleep"
    /\ \E t \in SleepUntil(PollInterval) :
          /\ t <= MaxClock
          /\ now' = t
    /\ slept' = PollInterval
    /\ pc' = "recv"
    /\ last_log' = <<>>
    /\ UNCHANGED <<host_url, client, last_heartbeat, result, batch>>
    /\ SessionHistoryUnchanged

\* sleep(Duration::from_millis(200))
PollSleep ==
    /\ UNCHANGED <<connections, certificates>>
    /\ pc = "poll_sleep"
    /\ \E t \in SleepUntil(PollInterval) :
          /\ t <= MaxClock
          /\ now' = t
    /\ slept' = PollInterval
    /\ pc' = "heartbeat_check"
    /\ last_log' = <<>>
    /\ UNCHANGED <<host_url, client, last_heartbeat, result, batch>>
    /\ SessionHistoryUnchanged

\* a check that holds heartbeats back until the certificate is acknowledged
CheckHeartbeatOnceAcked ==
    /\ UNCHANGED <<connections, certificates>>
    /\ pc = "heartbeat_check"
    /\ pc' = IF cert_acked /\ HeartbeatDue(last_heartbeat, now)
             THEN "heartbeat_send" ELSE "recv"
    /\ last_log' = <<>>
    /\ UNCHANGED <<now, host_url, client, last_heartbeat, result, batch, slept>>
    /\ SessionHistoryUnchanged

\* if last_heartbeat.checked_add_signed(..).is_some_and(|time| Utc::now() > time)
CheckHeartbeat ==
    /\ UNCHANGED <<connections, certificates>>
    /\ pc = "heartbeat_check"
    /\ pc' = IF HeartbeatDue(last_heartbeat, now) THEN "heartbeat_send" ELSE "recv"
    /\ last_log' = <<>>
    /\ UNCHANGED <<now, host_url, client, last_heartbeat, result, batch, slept>>
    /\ SessionHistoryUnchanged

\* client.send_message(&Message::binary(heartbeat_packet())) is Ok;
\* last_heartbeat = Utc::now()
HeartbeatSendOk ==
    /\ UNCHANGED <<connections, certificates>>
    /\ pc = "heartbeat_send"
    /\ \E d \in SendLatency :
          /\ now + d <= MaxClock
          /\ now' = now + d
    /\ last_heartbeat' = now'
    /\ heartbeats' = Append(heartbeats, now')
    /\ hb_failed' = FALSE
    /\ pc' = "recv"
    /\ last_log' = <<>>
    /\ recv_outcome' = "none"
    /\ UNCHANGED <<host_url, client, result, batch, slept, delivered, received,
                   started_at, cert_acked>>

\* a failed send that still restarts the 20 s timer
HeartbeatSendErrStamped ==
    /\ UNCHANGED <<connections, certificates>>
    /\ pc = "heartbeat_send"
    /\ \E d \in SendLatency :
          /\ now + d <= MaxClock
          /\ now' = now + d
    /\ last_heartbeat' = now'
    /\ hb_failed' = TRUE
    /\ pc' = "recv"
    /\ last_log' = <<"Failed to send heartbeat packet">>
    /\ recv_outcome' = "none"
    /\ UNCHANGED <<host_url, client, result, batch, slept, delivered, received,
                   started_at, heartbeats, cert_acked>>

\* a failed send propagated with `?`
HeartbeatSendErrPropagated ==
    /\ UNCHANGED <<connections, certificates>>
    /\ pc = "heartbeat_send"
    /\ \E d \in SendLatency :
          /\ now + d <= MaxClock
          /\ now' = now + d
    /\ hb_failed' = TRUE
    /\ Return("Err")
    /\ last_log' = <<>>
    /\ recv_outcome' = "none"
    /\ UNCHANGED <<host_url, slept, delivered, received, started_at, heartbeats,
                   cert_acked>>

\* client.send_message(..) is Err
HeartbeatSendErr ==
    /\ UNCHANGED <<connections, certificates>>
    /\ pc = "heartbeat_send"
    /\ \E d \in SendLatency :
          /\ now + d <= MaxClock
          /\ now' = now + d
    /\ hb_failed' = TRUE
    /\ pc' = "recv"
    /\ last_log' = <<"Failed to send heartbeat packet">>
    /\ recv_outcome' = "none"
    /\ UNCHANGED <<host_url, client, last_heartbeat, result, batch, slept,
                   delivered, received, started_at, heartbeats, cert_acked>>

----------------------------------------------------------------------------
(* start_listening: 'poll loop *)

\* What becomes of a received non-close message: deserialize_packet, then
\* depack_packets, each Err ending this iteration (`continue`).
Depacked(data) ==
    LET packet == deserialize_packet(data)
    IN  IF ~packet.ok THEN [kind |-> "FrameError", messages |-> <<>>]
        ELSE LET message == depack_packets(packet.header, packet.body)
             IN  IF ~message.ok THEN [kind |-> "DepackError", messages |-> <<>>]
                 ELSE [kind |-> message.kind, messages |-> message.messages]

\* recv_message() is Ok(msg) and msg.is_close()
RecvClose ==
    /\ UNCHANGED <<connections, certificates>>
    /\ pc = "recv"
    /\ Return("Ok")
    /\ recv_outcome' = "close"
    /\ last_log' = <<>>
    /\ UNCHANGED <<now, host_url, slept, delivered, received, started_at,
                   heartbeats, hb_failed, cert_acked>>

\* Ok(msg), deserialize_packet or depack_packets is Err: continue 'poll
RecvDropped ==
    /\ UNCHANGED <<connections, certificates>>
    /\ pc = "recv"
    /\ \E data \in Payloads :
          /\ Depacked(data).kind \in {"FrameError", "DepackError"}
          /\ recv_outcome' = Depacked(data).kind
    /\ pc' = "recv"
    /\ last_log' = <<>>
    /\ UNCHANGED <<now, host_url, client, last_heartbeat, result, batch, slept,
                   delivered, received, started_at, heartbeats, hb_failed,
                   cert_acked>>

\* a HeartbeatResp that restarts the 20 s timer
RecvControlStamping ==
    /\ UNCHANGED <<connections, certificates>>
    /\ pc = "recv"
    /\ \E data \in Payloads :
          /\ Depacked(data).kind \in {"CertificateResp", "HeartbeatResp"}
          /\ recv_outcome' = Depacked(data).kind
          /\ cert_acked' = (cert_acked \/ Depacked(data).kind = "CertificateResp")
          /\ last_heartbeat' = IF Depacked(data).kind = "HeartbeatResp"
                               THEN now ELSE last_heartbeat
    /\ pc' = "recv"
    /\ last_log' = <<>>
    /\ UNCHANGED <<now, host_url, client, result, batch, slept, delivered,
                   received, started_at, heartbeats, hb_failed>>

\* a control frame that ends the drain burst
RecvControlEndsBurst ==
    /\ UNCHANGED <<connections, certificates>>
    /\ pc = "recv"
    /\ \E data \in Payloads :
          /\ Depacked(data).kind \in {"CertificateResp", "HeartbeatResp"}
          /\ recv_outcome' = Depacked(data).kind
          /\ cert_acked' = (cert_acked \/ Depacked(data).kind = "CertificateResp")
    /\ pc' = "poll_sleep"
    /\ last_log' = <<>>
    /\ UNCHANGED <<now, host_url, client, last_heartbeat, result, batch, slept,
                   delivered, received, started_at, heartbeats, hb_failed>>

\* Ok(msg), process_depacked_message(CertificateResp | HeartbeatResp(count))
RecvControl ==
    /\ UNCHANGED <<connections, certificates>>
    /\ pc = "recv"
    /\ \E data \in Payloads :
          /\ Depacked(data).kind \in {"CertificateResp", "HeartbeatResp"}
          /\ recv_outcome' = Depacked(data).kind
          /\ cert_acked' = (cert_acked \/ Depacked(data).kind = "CertificateResp")
    /\ pc' = "recv"
    /\ last_log' = <<>>
    /\ UNCHANGED <<now, host_url, client, last_heartbeat, result, batch, slept,
                   delivered, received, started_at, heartbeats, hb_failed>>

\* Ok(msg), process_depacked_message(LiveMessages(messages)): enter the for loop
RecvLiveMessages ==
    /\ UNCHANGED <<connections, certificates>>
    /\ pc = "recv"
    /\ \E data \in Payloads :
          LET message == Depacked(data)
          IN  /\ message.kind = "LiveMessages"
              /\ Len(received) + Len(message.messages) <= MaxReceived
              /\ batch' = message.messages
              /\ received' = received \o message.messages
    /\ recv_outcome' = "LiveMessages"
    /\ pc' = "deliver"
    /\ last_log' = <<>>
    /\ UNCHANGED <<now, host_url, client, last_heartbeat, result, slept,
                   delivered, started_at, heartbeats, hb_failed, cert_acked>>

\* process_live_message(live_message): the consumer
process_live_message(live_message) == Append(delivered, live_message)

\* a loop that walks the batch from its end
VisitRawMessageFromEnd ==
    /\ UNCHANGED <<connections, certificates>>
    /\ pc = "deliver"
    /\ batch # <<>>
    /\ LET live_message == try_from(batch[Len(batch)])
       IN  delivered' = IF live_message.ok
                        THEN process_live_message(live_message.msg)
                        ELSE delivered
    /\ batch' = SubSeq(batch, 1, Len(batch) - 1)
    /\ pc' = "deliver"
    /\ last_log' = <<>>
    /\ recv_outcome' = "none"
    /\ UNCHANGED <<now, host_url, client, last_heartbeat, result, slept,
                   received, started_at, heartbeats, hb_failed, cert_acked>>

\* a loop that gives up the batch at the first raw message it cannot convert
VisitRawMessageOrBreak ==
    /\ UNCHANGED <<connections, certificates>>
    /\ pc = "deliver"
    /\ batch # <<>>
    /\ LET live_message == try_from(Head(batch))
       IN  /\ delivered' = IF live_message.ok
                           THEN process_live_message(live_message.msg)
                           ELSE delivered
           /\ batch' = IF live_message.ok THEN Tail(batch) ELSE <<>>
    /\ pc' = "deliver"
    /\ last_log' = <<>>
    /\ recv_outcome' = "none"
    /\ UNCHANGED <<now, host_url, client, last_heartbeat, result, slept,
                   received, started_at, heartbeats, hb_failed, cert_acked>>

\* one iteration of `for raw_message in messages`
VisitRawMessage ==
    /\ UNCHANGED <<connections, certificates>>
    /\ pc = "deliver"
    /\ batch # <<>>
    /\ LET live_message == try_from(Head(batch))
       IN  delivered' = IF live_message.ok
                        THEN process_live_message(live_message.msg)
                        ELSE delivered
    /\ batch' = Tail(batch)
    /\ pc' = "deliver"
    /\ last_log' = <<>>
    /\ recv_outcome' = "none"
    /\ UNCHANGED <<now, host_url, client, last_heartbeat, result, slept,
                   received, started_at, heartbeats, hb_failed, cert_acked>>

\* a loop left for the next recv_message while raw messages are still pending
BatchDoneEarly ==
    /\ UNCHANGED <<connections, certificates>>
    /\ pc = "deliver"
    /\ pc' = "recv"
    /\ last_log' = <<>>
    /\ UNCHANGED <<now, host_url, client, last_heartbeat, result, batch, slept>>
    /\ SessionHistoryUnchanged

\* the for loop is exhausted: process_depacked_message returns, next 'poll turn
BatchDone ==
    /\ UNCHANGED <<connections, certificates>>
    /\ pc = "deliver"
    /\ batch = <<>>
    /\ pc' = "recv"
    /\ last_log' = <<>>
    /\ UNCHANGED <<now, host_url, client, last_heartbeat, result, batch, slept>>
    /\ SessionHistoryUnchanged

\* Err(e) values of recv_message()
RecvErrors ==
    { [variant |-> "IoError", kind |-> "WouldBlock"],
      [variant |-> "IoError", kind |-> "ConnectionReset"],
      [variant |-> "NoDataAvailable", kind |-> "none"],
      [variant |-> "ProtocolError", kind |-> "none"] }

ErrorName(e) == IF e.variant = "IoError" THEN e.kind ELSE e.variant

\* a match that takes every IoError for a disconnect
fetch_error_io_ends(e) ==
    IF e.variant \in {"IoError", "NoDataAvailable"} THEN "return_ok" ELSE "log"

\* a match that treats every error but would-block as a disconnect
fetch_error_all_end(e) ==
    IF e.variant = "IoError" /\ e.kind = "WouldBlock" THEN "continue_main"
    ELSE "return_ok"

\* `let error = match error { .. }` after the 'poll loop
fetch_error(e) ==
    IF e.variant = "IoError"
    THEN IF e.kind = "WouldBlock" THEN "continue_main" ELSE "log"
    ELSE IF e.variant = "NoDataAvailable" THEN "return_ok"
    ELSE "log"

\* Err(IoError) of kind WouldBlock: continue 'main
RecvWouldBlock ==
    /\ UNCHANGED <<connections, certificates>>
    /\ pc = "recv"
    /\ \E e \in RecvErrors :
          /\ fetch_error(e) = "continue_main"
          /\ recv_outcome' = ErrorName(e)
    /\ pc' = "poll_sleep"
    /\ last_log' = <<>>
    /\ UNCHANGED <<now, host_url, client, last_heartbeat, result, batch, slept,
                   delivered, received, started_at, heartbeats, hb_failed,
                   cert_acked>>

\* Err(NoDataAvailable): return Ok(())
RecvNoData ==
    /\ UNCHANGED <<connections, certificates>>
    /\ pc = "recv"
    /\ \E e \in RecvErrors :
          /\ fetch_error(e) = "return_ok"
          /\ recv_outcome' = ErrorName(e)
    /\ Return("Ok")
    /\ last_log' = <<>>
    /\ UNCHANGED <<now, host_url, slept, delivered, received, started_at,
                   heartbeats, hb_failed, cert_acked>>

\* any other Err: log::warn!, fall off the end of the 'main body
RecvOtherError ==
    /\ UNCHANGED <<connections, certificates>>
    /\ pc = "recv"
    /\ \E e \in RecvErrors :
          /\ fetch_error(e) = "log"
          /\ recv_outcome' = ErrorName(e)
    /\ pc' = "poll_sleep"
    /\ last_log' = <<"Error occured when trying to poll message from WebSocet">>
    /\ UNCHANGED <<now, host_url, client, last_heartbeat, result, batch, slept,
                   delivered, received, started_at, heartbeats, hb_failed,
                   cert_acked>>

----------------------------------------------------------------------------
(* main: the supervisor loop *)

\* a supervisor that calls start_listening again without sleeping
ReconnectAtOnce ==
    /\ UNCHANGED <<connections, certificates>>
    /\ pc = "returned"
    /\ last_log' = <<IF result = "Err" THEN "Error occured in the connection"
                                      ELSE "Connection closed by server">>
    /\ pc' = "start"
    /\ UNCHANGED <<now, slept, host_url, client, last_heartbeat, result, batch>>
    /\ SessionHistoryUnchanged

\* the branch on start_listening's result, the two warnings, sleep(5 s)
Reconnect ==
    /\ UNCHANGED <<connections, certificates>>
    /\ pc = "returned"
    /\ last_log' = <<IF result = "Err" THEN "Error occured in the connection"
                                      ELSE "Connection closed by server",
                     "Trying to reconnect after 5 seconds">>
    /\ slept' = ReconnectDelay
    /\ \E t \in SleepUntil(ReconnectDelay) :
          /\ t <= MaxClock
          /\ now' = t
    /\ pc' = "start"
    /\ UNCHANGED <<host_url, client, last_heartbeat, result, batch>>
    /\ SessionHistoryUnchanged

Next ==
    \/ ConnectOk
    \/ ConnectPanic
    \/ SetNonblockingOk
    \/ SetNonblockingErr
    \/ CertificateSent
    \/ CertificateErr
    \/ PollSleep
    \/ CheckHeartbeat
    \/ HeartbeatSendOk
    \/ HeartbeatSendErr
    \/ RecvClose
    \/ RecvDropped
    \/ RecvControl
    \/ RecvLiveMessages
    \/ VisitRawMessage
    \/ BatchDone
    \/ RecvWouldBlock
    \/ RecvNoData
    \/ RecvOtherError
    \/ Reconnect

Spec == Init /\ [][Next]_vars

\* The thread is never suspended for good: it takes its next step whenever
\* it has one.  What recv_message returns stays the server's choice.
SpecLive == Init /\ [][Next]_vars /\ WF_vars(Next)

TypeOK ==
    /\ pc \in {"start", "set_nonblocking", "certificate", "poll_sleep",
               "heartbeat_check", "heartbeat_send", "recv", "deliver",
               "returned", "panicked"}
    /\ now \in 0..MaxClock
    /\ client \in {"none", "blocking", "nonblocking"}
    /\ result \in {"none", "Ok", "Err"}

----------------------------------------------------------------------------
(* Properties *)

\* C1: nothing inside the protocol engine aborts the process: no state in
\* which the process has panicked and the supervisor loop has stopped is
\* reachable.
NoProcessAbort == pc # "panicked"

\* C2: whenever a session has returned (Ok or Err) the supervisor's next step
\* is one sleep of exactly the fixed 5 s request, lasting at least 5 s, after
\* which a new session is started; the request does not depend on the result
\* or on how many sessions came before, and the restart is never refused.
SupervisorRestartsAfterFixedDelay ==
    /\ [][pc = "returned" =>
            /\ pc' = "start"
            /\ slept' = 5000
            /\ now' >= now + 5000]_vars
    /\ [](pc = "returned" /\ now + 5000 + 20000 <= MaxClock => ENABLED Reconnect)

\* C2 witness: a faulted session has been followed by the 5 s sleep.
RestartedAfterFault ==
    /\ pc = "start"
    /\ result = "Err"
    /\ slept = 5000
    /\ now >= 5000

\* C3: within a session, the first successful heartbeat send completes no
\* earlier than 20 s after the session's start timestamp, and two consecutive
\* successful sends are at least 20 s apart.
HeartbeatsAtLeastTwentySecondsApart ==
    /\ heartbeats # <<>> => heartbeats[1] >= started_at + 20000
    /\ \A i \in 1..(Len(heartbeats) - 1) : heartbeats[i + 1] >= heartbeats[i] + 20000

\* C3 witness: a session has sent two heartbeats.
TwoHeartbeatsSent == Len(heartbeats) >= 2

\* C4 as stated: at every heartbeat check with at least 20 s elapsed since
\* the last heartbeat, the send is attempted in that step, the boundary of
\* exactly 20 s included.
HeartbeatAttemptedFromTwentySeconds ==
    [][pc = "heartbeat_check" /\ now - last_heartbeat >= 20000
          => pc' = "heartbeat_send"]_vars

\* C4 amended: at every heartbeat check with strictly more than 20 s elapsed
\* the send is attempted in that step; with 20 s or less elapsed, exactly
\* 20 s included, no send is attempted and the step goes on to the drain.
HeartbeatAttemptedAfterTwentySeconds ==
    [][pc = "heartbeat_check" =>
          /\ now - last_heartbeat > 20000 => pc' = "heartbeat_send"
          /\ now - last_heartbeat <= 20000 => pc' = "recv"]_vars

\* C4 witness: the check has just found more than 20 s elapsed.
HeartbeatSendPending ==
    /\ pc = "heartbeat_send"
    /\ now - last_heartbeat > 20000

\* C5: a would-block receive leaves the session running and leads to the next
\* poll tick; a close message or no-data-available ends the session as Ok, and
\* a session that has returned does nothing further: the only step is the
\* supervisor's restart, with no receive, heartbeat or delivery.
WouldBlockContinuesCloseEndsOnce ==
    /\ [](recv_outcome = "WouldBlock" =>
            pc = "poll_sleep" /\ result = "none" /\ client = "nonblocking")
    /\ [](recv_outcome \in {"close", "NoDataAvailable"} =>
            pc = "returned" /\ result = "Ok" /\ client = "none")
    /\ [][pc = "returned" =>
            /\ pc' = "start"
            /\ recv_outcome' = "none"
            /\ UNCHANGED <<delivered, received, heartbeats, result>>]_vars

\* C5 witness: a session that delivered events was ended by a close message.
ClosedAfterDelivery ==
    /\ recv_outcome = "close"
    /\ pc = "returned"
    /\ delivered # <<>>

\* C6: a receive error other than would-block and no-data-available is
\* logged and ends only the drain burst: the session keeps its socket and its
\* heartbeat timestamp and goes to the next poll tick, which runs the
\* heartbeat check and then a new drain burst.
OtherReceiveErrorEndsBurstOnly ==
    /\ [][pc = "recv" /\ recv_outcome' \in {"ConnectionReset", "ProtocolError"} =>
            /\ pc' = "poll_sleep"
            /\ client' = client
            /\ last_heartbeat' = last_heartbeat
            /\ result' = "none"
            /\ last_log' # <<>>]_vars
    /\ [][pc = "poll_sleep" => pc' = "heartbeat_check"]_vars
    /\ [][pc = "heartbeat_check" => pc' \in {"heartbeat_send", "recv"}]_vars
    /\ [][pc = "heartbeat_send" => pc' = "recv"]_vars

\* C6 witness: after an I/O error other than would-block the session that
\* has sent a heartbeat is about to sleep for its next tick.
BurstEndedByOtherError ==
    /\ recv_outcome = "ConnectionReset"
    /\ pc = "poll_sleep"
    /\ heartbeats # <<>>
    /\ last_heartbeat = heartbeats[Len(heartbeats)]

\* C7: a failed heartbeat send leaves the last-heartbeat timestamp and the
\* socket as they were and continues into the drain burst, and every later
\* heartbeat check of the session attempts the send again until one succeeds.
FailedHeartbeatIsRetried ==
    /\ [][pc = "heartbeat_send" /\ heartbeats' = heartbeats =>
            /\ last_heartbeat' = last_heartbeat
            /\ client' = client
            /\ pc' = "recv"
            /\ hb_failed']_vars
    /\ [][pc = "heartbeat_check" /\ hb_failed => pc' = "heartbeat_send"]_vars
    /\ [][hb_failed /\ ~hb_failed' =>
            Len(heartbeats') = Len(heartbeats) + 1 \/ pc' = "set_nonblocking"]_vars

\* C7 witness: a send is being attempted again after a failed one.
HeartbeatRetryPending ==
    /\ hb_failed
    /\ pc = "heartbeat_send"

\* C8: the events handed to the consumer, followed by what the rest of the
\* current batch decodes to, are exactly the decodable raw messages of the
\* session in the order they were received.
DeliveredInReceiveOrder ==
    delivered \o DecodeAll(batch) = DecodeAll(received)

\* C8 witness: two different events of one session have been delivered.
TwoDistinctEventsDelivered ==
    /\ pc = "recv"
    /\ Len(delivered) = 2
    /\ delivered[1] # delivered[2]
    /\ Len(received) = 2

\* C9: a message whose frame fails to parse or to depack delivers nothing
\* and the drain burst goes on to the next receive with the session intact;
\* a raw message that fails conversion is skipped alone, and every raw message
\* that converts is delivered, one loop iteration consuming exactly the head
\* of the batch.
DecodeErrorsDiscardOneUnit ==
    /\ [][pc = "recv" /\ recv_outcome' \in {"FrameError", "DepackError"} =>
            /\ pc' = "recv"
            /\ client' = client
            /\ result' = "none"
            /\ UNCHANGED <<delivered, received, batch>>]_vars
    /\ [][pc = "deliver" /\ batch # <<>> =>
            /\ batch' = Tail(batch)
            /\ pc' = "deliver"
            /\ client' = client
            /\ delivered' = IF try_from(Head(batch)).ok
                            THEN Append(delivered, try_from(Head(batch)).msg)
                            ELSE delivered]_vars

\* C9 witness: the first raw message of a batch of two failed conversion and
\* the second is still to be visited.
SkippedHeadOfBatch ==
    /\ pc = "deliver"
    /\ recv_outcome = "none"
    /\ Len(batch) = 1
    /\ try_from(batch[1]).ok
    /\ Len(received) = 2
    /\ ~try_from(received[1]).ok
    /\ delivered = <<>>

\* C10: after the certificate step the session is in the poll loop at once
\* (or has returned Err because the send failed); with no CertificateResp
\* received a due heartbeat is still attempted and raw messages are still
\* delivered; and a session returns only from the connecting steps or on a
\* close / no-data receive, never for want of the acknowledgment.
ActiveWithoutCertificateAck ==
    /\ [][pc = "certificate" => pc' \in {"poll_sleep", "returned"}]_vars
    /\ [][pc = "heartbeat_check" /\ ~cert_acked /\ now > last_heartbeat + 20000
            => pc' = "heartbeat_send"]_vars
    /\ [][pc = "deliver" /\ ~cert_acked /\ batch # <<>> /\ try_from(Head(batch)).ok
            => Len(delivered') = Len(delivered) + 1]_vars
    /\ [][pc # "returned" /\ pc' = "returned" =>
            \/ pc \in {"set_nonblocking", "certificate"}
            \/ recv_outcome' \in {"close", "NoDataAvailable"}]_vars

\* C10 witness: a session without acknowledgment has sent a heartbeat and
\* delivered an event.
WorkedWithoutAck ==
    /\ ~cert_acked
    /\ heartbeats # <<>>
    /\ delivered # <<>>
    /\ pc = "recv"

\* C11: whenever the session is about to call recv_message, nothing of an
\* earlier frame is pending: the batch is empty and every raw message
\* received so far that converts has been handed to the consumer; a receive
\* never happens from any other position.
NoReceiveBeforeDelivery ==
    /\ [](pc = "recv" => batch = <<>> /\ delivered = DecodeAll(received))
    /\ [][recv_outcome' # "none" =>
            pc = "recv" /\ batch = <<>> /\ delivered = DecodeAll(received)]_vars

\* C11 witness: a second frame has been received after the event of the
\* first one was delivered.
SecondFrameAfterDelivery ==
    /\ pc = "deliver"
    /\ recv_outcome = "LiveMessages"
    /\ Len(batch) = 1
    /\ Len(received) = 2
    /\ Len(delivered) = 1

\* C12: the socket and the heartbeat timestamp exist exactly while a session
\* runs; every session opens a socket of its own, and its timestamp starts as
\* the clock value read at that session's start and afterwards is the time of
\* one of that session's own heartbeats, never a value left by an earlier
\* session.
SessionStateNotShared ==
    /\ [](client # "none" <=>
            pc \in {"set_nonblocking", "certificate", "poll_sleep",
                    "heartbeat_check", "heartbeat_send", "recv", "deliver"})
    /\ [](last_heartbeat # NoTime <=>
            pc \in {"certificate", "poll_sleep", "heartbeat_check",
                    "heartbeat_send", "recv", "deliver"})
    /\ [](last_heartbeat # NoTime =>
            /\ last_heartbeat >= started_at
            /\ heartbeats = <<>> => last_heartbeat = started_at
            /\ heartbeats # <<>> => last_heartbeat = heartbeats[Len(heartbeats)])
    /\ [][client = "none" /\ client' # "none" =>
            connections' = connections + 1 /\ last_heartbeat' = NoTime]_vars
    /\ [][connections' # connections => client = "none" /\ client' # "none"]_vars
    /\ [][last_heartbeat = NoTime /\ last_heartbeat' # NoTime =>
            last_heartbeat' = now' /\ started_at' = now']_vars

\* C12 witness: the second session finds its first heartbeat due, counted
\* from its own start.
SecondSessionHeartbeatDue ==
    /\ connections = 2
    /\ pc = "heartbeat_send"
    /\ heartbeats = <<>>
    /\ started_at > 0
    /\ last_heartbeat = started_at

\* C13 as stated: in a session with more than 20 s elapsed since the last
\* heartbeat and clock left for one more poll sleep, a heartbeat send is
\* eventually attempted or the session ends, whatever is received: every
\* drain burst comes to an end.
HeartbeatEventuallyAttempted ==
    (/\ pc \in {"poll_sleep", "recv", "deliver"}
     /\ now > last_heartbeat + 20000
     /\ now + 200 + 9800 <= MaxClock)
        ~> (pc \in {"heartbeat_send", "returned"})

\* C13 amended: the same, in every run in which each drain burst comes to an
\* end, that is in which recv_message does not go on returning messages for
\* ever.
HeartbeatAttemptedOnceBurstEnds ==
    ([]<>(pc \notin {"recv", "deliver"}))
        => ((/\ pc \in {"poll_sleep", "recv", "deliver"}
             /\ now > last_heartbeat + 20000
             /\ now + 200 + 9800 <= MaxClock)
                ~> (pc \in {"heartbeat_send", "returned"}))

\* C13 witness: a second heartbeat is being attempted in a session that has
\* received and delivered messages.
HeartbeatDueAfterTraffic ==
    /\ pc = "heartbeat_send"
    /\ heartbeats # <<>>
    /\ now > last_heartbeat + 20000
    /\ delivered # <<>>

\* C14: a session sends its certificate frame at most once, on a socket that
\* is connected and non-blocking, and has sent it exactly once whenever it is
\* in the poll loop, so before any heartbeat or receive; when the frame cannot
\* be built or sent the session returns Err from the certificate step.
CertificateOnceBeforePolling ==
    /\ [](certificates <= 1)
    /\ [](pc \in {"poll_sleep", "heartbeat_check", "heartbeat_send", "recv", "deliver"}
            => certificates = 1)
    /\ [](heartbeats # <<>> \/ received # <<>> \/ recv_outcome # "none" \/ hb_failed
            => certificates = 1)
    /\ [][certificates' = certificates + 1 =>
            pc = "certificate" /\ client = "nonblocking" /\ pc' = "poll_sleep"]_vars
    /\ [][pc = "certificate" /\ certificates' = certificates =>
            pc' = "returned" /\ result' = "Err" /\ client' = "none"]_vars

\* C14 witness: a session whose certificate was sent is receiving.
PollingAfterCertificate ==
    /\ certificates = 1
    /\ pc = "deliver"
    /\ heartbeats # <<>>

\* C15: the last-heartbeat timestamp is set to the current time by the
\* session start and by a successful heartbeat send, and no other step of a
\* running session changes it (the local ceases to exist when the session
\* returns).
LastHeartbeatChangesOnlyOnSend ==
    /\ [][last_heartbeat' # last_heartbeat =>
            \/ /\ pc = "heartbeat_send"
               /\ Len(heartbeats') = Len(heartbeats) + 1
               /\ last_heartbeat' = now'
            \/ /\ pc = "set_nonblocking"
               /\ pc' = "certificate"
               /\ last_heartbeat' = now'
            \/ /\ pc' = "returned"
               /\ last_heartbeat' = NoTime]_vars
    /\ [][Len(heartbeats') = Len(heartbeats) + 1 => last_heartbeat' = now']_vars

\* C15 witness: after a successful send the session went through a drain
\* burst with a delivery and a later tick, the timestamp still that send's.
StampKeptThroughBurst ==
    /\ pc = "heartbeat_check"
    /\ heartbeats # <<>>
    /\ last_heartbeat = heartbeats[Len(heartbeats)]
    /\ now > last_heartbeat
    /\ delivered # <<>>

\* C16: receiving CertificateResp or HeartbeatResp delivers nothing, leaves
\* the heartbeat timestamp, the socket and the batch alone and keeps the
\* session in its drain burst; the consumer is called only from the for loop
\* over a LiveMessages batch.
ControlOutcomesAreAdvisory ==
    /\ [][pc = "recv" /\ recv_outcome' \in {"CertificateResp", "HeartbeatResp"} =>
            /\ pc' = "recv"
            /\ result' = "none"
            /\ UNCHANGED <<delivered, received, batch, last_heartbeat, heartbeats,
                           client>>]_vars
    /\ [][delivered' # delivered /\ delivered' # <<>> =>
            pc = "deliver" /\ batch # <<>> /\ Len(delivered') = Len(delivered) + 1]_vars

\* C16 witness: a HeartbeatResp has just been received in a burst of a
\* session that delivered events and was acknowledged.
HeartbeatRespInBurst ==
    /\ pc = "recv"
    /\ recv_outcome = "HeartbeatResp"
    /\ cert_acked
    /\ delivered # <<>>
    /\ heartbeats # <<>>

\* C17: a session that is in the poll loop returns only Ok; a session
\* returns Err only from the set_nonblocking step or the certificate step.
PollLoopEndsOnlyClean ==
    /\ [][/\ pc \in {"poll_sleep", "heartbeat_check", "heartbeat_send", "recv",
                     "deliver"}
          /\ pc' = "returned"
          => result' = "Ok"]_vars
    /\ [][pc # "returned" /\ pc' = "returned" /\ result' = "Err" =>
            pc \in {"set_nonblocking", "certificate"}]_vars
    /\ [](pc = "returned" /\ result = "Err" => certificates = 0 /\ heartbeats = <<>>)

\* C17 witness: a session whose heartbeat send had failed ended Ok.
CleanEndAfterSendFailure ==
    /\ pc = "returned"
    /\ result = "Ok"
    /\ hb_failed
    /\ received # <<>>

\* C18: a socket is opened only by the thread standing at the start of
\* start_listening with no socket held and, after the first session, with the
\* previous call returned; between a return and the next call lie at least
\* 5 s; events are delivered only on the one socket held, so never by two
\* sessions at a time.
OneSessionAtATime ==
    /\ [][connections' # connections =>
            /\ pc = "start"
            /\ client = "none"
            /\ batch = <<>>
            /\ connections > 0 => result \in {"Ok", "Err"}]_vars
    /\ [][pc = "returned" =>
            /\ pc' = "start"
            /\ client' = "none"
            /\ connections' = connections
            /\ now' >= now + 5000]_vars
    /\ [][(delivered' # delivered /\ delivered' # <<>>) \/ Len(heartbeats') > Len(heartbeats) =>
            client = "nonblocking" /\ connections' = connections]_vars
    /\ [](pc \in {"start", "returned", "panicked"} => client = "none")

\* C18 witness: the second session delivers an event.
SecondSessionDelivers ==
    /\ connections = 2
    /\ pc = "deliver"
    /\ delivered # <<>>
    /\ now >= 5000

====
